---- MODULE Spec2Model ----
(***************************************************************************)
(* Model of the cell-automaton grid engine: Driver<R> (src/src/drivers.rs),*)
(* the CellWorld / RuleSet traits (src/src/lib.rs) and the two rule sets   *)
(* GameOfLife and Diffusion (src/src/rulesets.rs).                         *)
(*                                                                         *)
(* Cell storage `data` is a function on 0..len-1 (the Vec, 0-based, so the *)
(* index arithmetic of the source carries over verbatim).  A panic ends    *)
(* the program: pc = "panicked" has no successor.                          *)
(*                                                                         *)
(* Diffusion cells are f32 in the source.  They are modelled as exact      *)
(* rationals: a cell holds the numerator of a fraction whose denominator   *)
(* is Denom^scale, scale being the number of completed steps; the weights  *)
(* 0.05, 0.1, 0.4 are 1/20, 2/20, 8/20.  f32 rounding is not modelled.     *)
(*                                                                         *)
(* The grids of Game of Life are finitely many, so its behaviours are not  *)
(* cut.  The cells of Diffusion grow without bound, so a Diffusion         *)
(* behaviour is cut after MaxWrites writes and MaxSteps steps.             *)
(***************************************************************************)
EXTENDS Integers, Sequences, FiniteSets, TLC

VARIABLES
    rule,       \* the RuleSet type parameter R: "GameOfLife" or "Diffusion"
    parallel,   \* whether the crate is built with feature "parallel"
    ctor,       \* <<width, height>> as passed to CellWorld::new (history)
    width,      \* Driver.width
    data,       \* Driver.data, a function on 0..len-1
    pc,         \* "idle", "loop" (inside step_many), "step", "panicked"
    op,         \* the current / last trait method called
    arg,        \* its arguments
    ret,        \* get_cell's return value, as <<v>>; <<>> otherwise
    panic,      \* "none" or the panic message
    next,       \* the Vec being collected by step: idx -> new cell
    progress,   \* per worker, how many indices of its range are done
    remaining,  \* iterations step_many's loop still has to run
    old,        \* data when the current / last step_many was called; <<>> otherwise
    pre,        \* data when the step in progress began; <<>> outside a step
    writes,     \* number of set_cell calls on a Diffusion grid (bounded)
    scale       \* number of completed steps of a Diffusion grid (bounded)

vars == <<rule, parallel, ctor, width, data, pc, op, arg, ret, panic, next,
          progress, remaining, old, pre, writes, scale>>

----------------------------------------------------------------------------
(* Bounds of the model *)

MaxSide == 3
MaxCells == 9
MaxWrites == 1
MaxSteps == 2
MaxN == 2
NumWorkers == 2

----------------------------------------------------------------------------
(* Rule sets: src/src/rulesets.rs *)

Rules == {"GameOfLife", "Diffusion"}

Live == "Live"
Dead == "Dead"

\* Denominator of the Diffusion weights: 0.05 = 1/20, 0.1 = 2/20, 0.4 = 8/20.
Denom == 20
WDiag == 1
WOrth == 2
WMid == 8

RECURSIVE Pow(_, _)
Pow(b, e) == IF e = 0 THEN 1 ELSE b * Pow(b, e - 1)

\* The f32 value v held after g completed steps.
Fixed(v, g) == v * Pow(Denom, g)

\* <R::Cell as Default>::default()
Default(r) == IF r = "GameOfLife" THEN Dead ELSE 0

\* The eight neighbours in the order of the array literal of GameOfLife::step.
Neighbors(m) == <<m[1][1], m[1][2], m[1][3], m[2][1], m[2][3], m[3][1], m[3][2], m[3][3]>>

live_neighbors(m) == Cardinality({i \in 1..8 : Neighbors(m)[i] = Live})

\* Mutant: the centre cell is counted among its own neighbours.
GameOfLife_step_self(m) ==
    LET n == live_neighbors(m) + (IF m[2][2] = Live THEN 1 ELSE 0)
    IN  IF n = 3 THEN Live
        ELSE IF m[2][2] = Live /\ n = 2 THEN Live
        ELSE Dead

GameOfLife_step(m) ==
    IF live_neighbors(m) = 3 THEN Live
    ELSE IF m[2][2] = Live /\ live_neighbors(m) = 2 THEN Live
    ELSE Dead

\* Mutant: the diagonal neighbours weigh 0.1 like the orthogonal ones.
Diffusion_step_flat(m) ==
    WOrth * m[1][1] + WOrth * m[1][2] + WOrth * m[1][3] +
    WOrth * m[2][1] + WMid * m[2][2] + WOrth * m[2][3] +
    WOrth * m[3][1] + WOrth * m[3][2] + WOrth * m[3][3]

Diffusion_step(m) ==
    WDiag * m[1][1] + WOrth * m[1][2] + WDiag * m[1][3] +
    WOrth * m[2][1] + WMid * m[2][2] + WOrth * m[2][3] +
    WDiag * m[3][1] + WOrth * m[3][2] + WDiag * m[3][3]

\* R::step
R_step(r, m) == IF r = "GameOfLife" THEN GameOfLife_step(m) ELSE Diffusion_step(m)

----------------------------------------------------------------------------
(* Driver: src/src/drivers.rs *)

DataLen(d) == Cardinality(DOMAIN d)

NoPanic == "none"
IndexOob == "index out of bounds"
SubOverflow == "attempt to subtract with overflow"

\* Mutant: the storage is sized width + height.
new_with_sum(r, w, h) == [i \in 0..(w + h - 1) |-> Default(r)]

\* Mutant: the range of the storage is inclusive, 0..=(width * height).
new_with_inclusive(r, w, h) == [i \in 0..(w * h) |-> Default(r)]

\* Driver::new_with
new_with(r, w, h) == [i \in 0..(w * h - 1) |-> Default(r)]

\* Driver::adjacency
adjacency(d, w, idx) ==
    LET x == idx % w
        y == idx \div w
    IN  IF y = 0 THEN
            IF x = 0 THEN "TopLeft"
            ELSE IF x = w - 1 THEN "TopRight"
            ELSE "Top"
        ELSE IF y = (DataLen(d) \div w) - 1 THEN
            IF x = 0 THEN "BottomLeft"
            ELSE IF x = w - 1 THEN "BottomRight"
            ELSE "Bottom"
        ELSE
            IF x = 0 THEN "Left"
            ELSE IF x = w - 1 THEN "Right"
            ELSE "None"

\* self.data[i] for a usize expression whose mathematical value is i.  A
\* negative i means a usize subtraction went below zero: a build with
\* overflow checks panics there, a build without wraps to a huge index, which
\* the bounds check of the Vec rejects.  `panics` is the set of messages the
\* builds can produce, empty when the read succeeds.
Index(d, i, dflt) ==
    IF i < 0 THEN [panics |-> {SubOverflow, IndexOob}, v |-> dflt]
    ELSE IF i \notin DOMAIN d THEN [panics |-> {IndexOob}, v |-> dflt]
    ELSE [panics |-> {}, v |-> d[i]]

\* One `match adj { <arms> => Default::default(), _ => self.data[i] }`
Slot(d, adj, arms, i, dflt) ==
    IF adj \in arms THEN [panics |-> {}, v |-> dflt] ELSE Index(d, i, dflt)

\* The nine reads of Driver::get_field_matrix, in evaluation order
\* tl, t, tr, l, c, r, bl, b, br.
field_reads(d, w, idx, dflt) ==
    LET adj == adjacency(d, w, idx)
    IN  << Slot(d, adj, {"Top", "TopLeft", "TopRight", "Left"}, idx - w - 1, dflt),
           Slot(d, adj, {"Top", "TopLeft", "TopRight"}, idx - w, dflt),
           Slot(d, adj, {"Top", "TopLeft", "TopRight", "Right"}, idx - w + 1, dflt),
           Slot(d, adj, {"TopLeft", "BottomLeft", "Left"}, idx - 1, dflt),
           Index(d, idx, dflt),
           Slot(d, adj, {"TopRight", "BottomRight", "Right"}, idx + 1, dflt),
           Slot(d, adj, {"Bottom", "BottomLeft", "BottomRight", "Left"}, idx + w - 1, dflt),
           Slot(d, adj, {"Bottom", "BottomLeft", "BottomRight"}, idx + w, dflt),
           Slot(d, adj, {"Bottom", "BottomLeft", "BottomRight", "Right"}, idx + w + 1, dflt) >>

\* Mutant: the snapshot is assembled column by column.
get_field_matrix_transposed(d, w, idx, dflt) ==
    LET rd == field_reads(d, w, idx, dflt)
        bad == {k \in 1..9 : rd[k].panics # {}}
        first == CHOOSE k \in bad : \A j \in bad : k <= j
    IN  [ panics |-> IF bad = {} THEN {} ELSE rd[first].panics,
          m |-> << <<rd[1].v, rd[4].v, rd[7].v>>,
                   <<rd[2].v, rd[5].v, rd[8].v>>,
                   <<rd[3].v, rd[6].v, rd[9].v>> >> ]

\* Driver::get_field_matrix: the 3x3 snapshot, or the panic of the first read
\* that fails.
get_field_matrix(d, w, idx, dflt) ==
    LET rd == field_reads(d, w, idx, dflt)
        bad == {k \in 1..9 : rd[k].panics # {}}
        first == CHOOSE k \in bad : \A j \in bad : k <= j
    IN  [ panics |-> IF bad = {} THEN {} ELSE rd[first].panics,
          m |-> << <<rd[1].v, rd[2].v, rd[3].v>>,
                   <<rd[4].v, rd[5].v, rd[6].v>>,
                   <<rd[7].v, rd[8].v, rd[9].v>> >> ]

\* Mutant: the coordinates are swapped, x * self.width + y.
FlatIndex_swapped(w, x, y) == x * w + y

\* The flat index y * self.width + x of Driver::get and Driver::set
FlatIndex(w, x, y) == y * w + x

\* Mutant: the flat index wraps around the storage instead of being checked.
get_wrapping(d, w, x, y, dflt) ==
    IF DOMAIN d = {} THEN [panics |-> {IndexOob}, v |-> dflt]
    ELSE [panics |-> {}, v |-> d[FlatIndex(w, x, y) % DataLen(d)]]

\* Driver::get
get(d, w, x, y, dflt) == Index(d, FlatIndex(w, x, y), dflt)

\* Driver::set: the storage after self.data[y * self.width + x] = value
set(d, w, x, y, value) == [d EXCEPT ![FlatIndex(w, x, y)] = value]

\* R::step(self.get_field_matrix(idx)): the closure of Driver::step
step_cell(r, d, w, idx) ==
    LET fm == get_field_matrix(d, w, idx, Default(r))
    IN  [panics |-> fm.panics, v |-> R_step(r, fm.m)]

\* Driver::step as a whole: the collected Vec, or a panic that leaves
\* self.data as it was.
step_result(r, d, w) ==
    LET bad == {i \in DOMAIN d : step_cell(r, d, w, i).panics # {}}
    IN  [ ok |-> bad = {},
          grid |-> IF bad = {} THEN [i \in DOMAIN d |-> step_cell(r, d, w, i).v] ELSE d ]

----------------------------------------------------------------------------
(* The program as a state machine *)

\* The values a caller writes: both cells of Game of Life; for Diffusion the
\* cold value 0 and the hot value 100 of the tests (at the current scale).
Hot == 100
WriteValues == IF rule = "GameOfLife" THEN {Live, Dead} ELSE {0, Fixed(Hot, scale)}

\* Coordinates a caller passes: every cell, and one column / one row beyond.
Xs == 0..ctor[1]
Ys == 0..ctor[2]

\* CellWorld::new -> Driver::new_with
Construct ==
    /\ rule \in Rules
    /\ ctor \in {c \in (0..MaxSide) \X (0..MaxSide) : c[1] * c[2] <= MaxCells}
    /\ width = ctor[1]
    /\ data = new_with(rule, ctor[1], ctor[2])
    /\ pc = "idle"
    /\ op = "new"
    /\ arg = ctor
    /\ ret = <<>>
    /\ panic = NoPanic
    /\ next = <<>>
    /\ progress = <<>>
    /\ remaining = 0
    /\ old = <<>>
    /\ pre = <<>>
    /\ writes = 0
    /\ scale = 0

\* CellWorld::set_cell -> Driver::set
set_cell(x, y, value) ==
    /\ pc = "idle"
    /\ rule = "Diffusion" => writes < MaxWrites
    /\ op' = "set_cell"
    /\ arg' = <<x, y, value>>
    /\ ret' = <<>>
    /\ old' = <<>>
    /\ writes' = IF rule = "Diffusion" THEN writes + 1 ELSE writes
    /\ IF FlatIndex(width, x, y) \in DOMAIN data
       THEN /\ data' = set(data, width, x, y, value)
            /\ UNCHANGED <<pc, panic>>
       ELSE /\ pc' = "panicked"
            /\ panic' = IndexOob
            /\ UNCHANGED data
    /\ UNCHANGED <<rule, parallel, ctor, width, next, progress, remaining, pre, scale>>

\* CellWorld::get_cell -> Driver::get
get_cell(x, y) ==
    LET rd == get(data, width, x, y, Default(rule))
    IN  /\ pc = "idle"
        /\ op' = "get_cell"
        /\ arg' = <<x, y>>
        /\ old' = <<>>
        /\ IF rd.panics = {}
           THEN /\ ret' = <<rd.v>>
                /\ UNCHANGED <<pc, panic>>
           ELSE /\ ret' = <<>>
                /\ pc' = "panicked"
                /\ panic' \in rd.panics
        /\ UNCHANGED <<rule, parallel, ctor, width, data, next, progress,
                       remaining, pre, writes, scale>>

\* The workers of one step: the sequential build maps the range 0..len on the
\* calling thread; the parallel build (rayon's into_par_iter) splits it into
\* contiguous sub-ranges, each mapped in ascending order by some worker, the
\* workers interleaving arbitrarily.
Workers == IF parallel THEN NumWorkers ELSE 1
ChunkStart(k, n) == (k * n) \div Workers
\* Mutant: the mapped range is 0..len-1, one index short.
ChunkEnd_short(k, n) == IF n = 0 THEN 0 ELSE ((k + 1) * (n - 1)) \div Workers

ChunkEnd(k, n) == ((k + 1) * n) \div Workers
ChunkLen(k, n) == ChunkEnd(k, n) - ChunkStart(k, n)

\* What entering Driver::step does: an empty output Vec, no index mapped yet.
BeginStep ==
    /\ pc' = "step"
    /\ next' = <<>>
    /\ progress' = [k \in 0..(Workers - 1) |-> 0]
    /\ pre' = data

\* CellWorld::step is called
step ==
    /\ pc = "idle"
    /\ rule = "Diffusion" => scale < MaxSteps
    /\ op' = "step"
    /\ arg' = <<>>
    /\ ret' = <<>>
    /\ old' = <<>>
    /\ BeginStep
    /\ UNCHANGED <<rule, parallel, ctor, width, data, panic, remaining, writes, scale>>

\* Mutant: the loop runs over 1..n.
step_many_iterations_short(n) == IF n = 0 THEN 0 ELSE n - 1

\* The number of iterations of `for _ in 0..n`
step_many_iterations(n) == n

\* CellWorld::step_many(n) is called
step_many(n) ==
    /\ pc = "idle"
    /\ rule = "Diffusion" => scale + n <= MaxSteps
    /\ op' = "step_many"
    /\ arg' = <<n>>
    /\ ret' = <<>>
    /\ old' = data
    /\ remaining' = step_many_iterations(n)
    /\ pc' = "loop"
    /\ UNCHANGED <<rule, parallel, ctor, width, data, panic, next, progress, pre,
                   writes, scale>>

\* step_many's loop body: self.step()
LoopIter ==
    /\ pc = "loop"
    /\ remaining > 0
    /\ remaining' = remaining - 1
    /\ BeginStep
    /\ UNCHANGED <<rule, parallel, ctor, width, data, op, arg, ret, panic, old,
                   writes, scale>>

\* step_many's loop ends
LoopExit ==
    /\ pc = "loop"
    /\ remaining = 0
    /\ pc' = "idle"
    /\ UNCHANGED <<rule, parallel, ctor, width, data, op, arg, ret, panic, next,
                   progress, remaining, old, pre, writes, scale>>

\* Mutant: the sweep updates the storage in place.
StepCell_inplace(k) ==
    /\ pc = "step"
    /\ k \in DOMAIN progress
    /\ progress[k] < ChunkLen(k, DataLen(data))
    /\ LET idx == ChunkStart(k, DataLen(data)) + progress[k]
           res == step_cell(rule, data, width, idx)
       IN  IF res.panics = {}
           THEN /\ next' = [i \in DOMAIN next \cup {idx} |->
                               IF i = idx THEN res.v ELSE next[i]]
                /\ data' = [data EXCEPT ![idx] = res.v]
                /\ progress' = [progress EXCEPT ![k] = @ + 1]
                /\ UNCHANGED <<pc, panic>>
           ELSE /\ pc' = "panicked"
                /\ panic' \in res.panics
                /\ UNCHANGED <<next, progress, data>>
    /\ UNCHANGED <<rule, parallel, ctor, width, op, arg, ret, remaining,
                   old, pre, writes, scale>>

\* Mutant: the new cells are collected in the order the workers finish them.
StepCell_unordered(k) ==
    /\ pc = "step"
    /\ k \in DOMAIN progress
    /\ progress[k] < ChunkLen(k, DataLen(data))
    /\ LET idx == ChunkStart(k, DataLen(data)) + progress[k]
           res == step_cell(rule, data, width, idx)
           slot == DataLen(next)
       IN  IF res.panics = {}
           THEN /\ next' = [i \in DOMAIN next \cup {slot} |->
                               IF i = slot THEN res.v ELSE next[i]]
                /\ progress' = [progress EXCEPT ![k] = @ + 1]
                /\ UNCHANGED <<pc, panic>>
           ELSE /\ pc' = "panicked"
                /\ panic' \in res.panics
                /\ UNCHANGED <<next, progress>>
    /\ UNCHANGED <<rule, parallel, ctor, width, data, op, arg, ret, remaining,
                   old, pre, writes, scale>>

\* Mutant: a mapped cell is now and then the default value, whatever the rule says.
StepCell_random(k) ==
    /\ pc = "step"
    /\ k \in DOMAIN progress
    /\ progress[k] < ChunkLen(k, DataLen(data))
    /\ LET idx == ChunkStart(k, DataLen(data)) + progress[k]
           res == step_cell(rule, data, width, idx)
       IN  IF res.panics = {}
           THEN /\ \E v \in {res.v, Default(rule)} :
                      next' = [i \in DOMAIN next \cup {idx} |->
                                  IF i = idx THEN v ELSE next[i]]
                /\ progress' = [progress EXCEPT ![k] = @ + 1]
                /\ UNCHANGED <<pc, panic>>
           ELSE /\ pc' = "panicked"
                /\ panic' \in res.panics
                /\ UNCHANGED <<next, progress>>
    /\ UNCHANGED <<rule, parallel, ctor, width, data, op, arg, ret, remaining,
                   old, pre, writes, scale>>

\* Worker k maps the next index of its range: it reads self.data and puts the
\* new cell into slot idx of the Vec being collected.
StepCell(k) ==
    /\ pc = "step"
    /\ k \in DOMAIN progress
    /\ progress[k] < ChunkLen(k, DataLen(data))
    /\ LET idx == ChunkStart(k, DataLen(data)) + progress[k]
           res == step_cell(rule, data, width, idx)
       IN  IF res.panics = {}
           THEN /\ next' = [i \in DOMAIN next \cup {idx} |->
                               IF i = idx THEN res.v ELSE next[i]]
                /\ progress' = [progress EXCEPT ![k] = @ + 1]
                /\ UNCHANGED <<pc, panic>>
           ELSE /\ pc' = "panicked"
                /\ panic' \in res.panics
                /\ UNCHANGED <<next, progress>>
    /\ UNCHANGED <<rule, parallel, ctor, width, data, op, arg, ret, remaining,
                   old, pre, writes, scale>>

\* `self.data = ...collect()`: every index is mapped, the new Vec replaces
\* the storage.
StepInstall ==
    /\ pc = "step"
    /\ \A k \in DOMAIN progress : progress[k] = ChunkLen(k, DataLen(data))
    /\ data' = next
    /\ next' = <<>>
    /\ progress' = <<>>
    /\ pre' = <<>>
    /\ scale' = IF rule = "Diffusion" THEN scale + 1 ELSE scale
    /\ pc' = IF op = "step_many" THEN "loop" ELSE "idle"
    /\ UNCHANGED <<rule, parallel, ctor, width, op, arg, ret, panic, remaining,
                   old, writes>>

Next ==
    \/ \E x \in Xs, y \in Ys, value \in WriteValues : set_cell(x, y, value)
    \/ \E x \in Xs, y \in Ys : get_cell(x, y)
    \/ step
    \/ \E n \in 0..MaxN : step_many(n)
    \/ LoopIter
    \/ LoopExit
    \/ \E k \in 0..(NumWorkers - 1) : StepCell(k)
    \/ StepInstall

\* The default build: #[cfg(not(feature = "parallel"))]
Init == parallel = FALSE /\ Construct

\* The build with feature "parallel"
InitPar == parallel = TRUE /\ Construct

Spec == Init /\ [][Next]_vars

SpecPar == InitPar /\ [][Next]_vars

----------------------------------------------------------------------------
(* Vocabulary of the properties *)

Width == ctor[1]
Height == ctor[2]
InGrid(x, y) == x \in 0..(Width - 1) /\ y \in 0..(Height - 1)
Offsets == {-1, 0, 1}

\* n successive calls of step: the grid they end in, or the grid at which a
\* call panics.
RECURSIVE StepN(_, _, _, _)
StepN(r, d, w, n) ==
    IF n = 0 THEN [ok |-> TRUE, grid |-> d]
    ELSE LET s == step_result(r, d, w)
         IN  IF s.ok THEN StepN(r, s.grid, w, n - 1) ELSE [ok |-> FALSE, grid |-> d]

\* The 3x3 blinker of tests::test_gol: column 1, and row 1.
Vertical == [i \in 0..8 |-> IF i \in {1, 4, 7} THEN Live ELSE Dead]
Horizontal == [i \in 0..8 |-> IF i \in {3, 4, 5} THEN Live ELSE Dead]

\* tests::test_diffusion: cell (0,0) hot on a 3x3 grid, and the grid the test
\* expects one step later, row by row.
HotCorner(g) == [i \in 0..8 |-> IF i = 0 THEN Fixed(Hot, g) ELSE 0]
AfterOneStep(g) ==
    LET expected == <<40, 10, 0, 10, 5, 0, 0, 0, 0>>
    IN  [i \in 0..8 |-> Fixed(expected[i + 1], g)]

----------------------------------------------------------------------------
(* Properties *)

\* C1: during a step on a grid with width > 0 and height > 0, every slot of
\* the 3x3 snapshot of a mapped cell (x, y) whose position (x+dx, y+dy) lies
\* outside the grid holds the rule's default cell value.
C1_BoundaryDefault ==
    (pc = "step" /\ Width > 0 /\ Height > 0) =>
        \A idx \in DOMAIN next :
            LET fm == get_field_matrix(pre, width, idx, Default(rule))
                x == idx % width
                y == idx \div width
            IN  \A dx \in Offsets, dy \in Offsets :
                    ~InGrid(x + dx, y + dy) => fm.m[2 + dy][2 + dx] = Default(rule)

\* C2: on a grid with width > 0 and height > 0 nothing panics but a get_cell
\* or set_cell with coordinates outside the grid.
C2_PanicFree ==
    (Width > 0 /\ Height > 0 /\ panic # NoPanic) =>
        (op \in {"get_cell", "set_cell"} /\ ~InGrid(arg[1], arg[2]))

\* C3: while a step is in progress the storage is the pre-step generation,
\* and every new cell collected so far is the rule applied to the snapshot
\* of that generation; a step that panics leaves the storage as it was.
C3_DoubleBuffered ==
    (pre # <<>> \/ pc = "step") =>
        /\ data = pre
        /\ \A idx \in DOMAIN next :
              next[idx] = R_step(rule, get_field_matrix(pre, width, idx, Default(rule)).m)

C3_Witness ==
    /\ pc = "step"
    /\ DOMAIN next = DOMAIN data
    /\ \E idx \in DOMAIN next : next[idx] # data[idx]

\* C4: step_many(n) returns with the grid n successive calls of step end in,
\* and panics exactly when one of those calls would, at the same grid.
C4_StepComposition ==
    (op = "step_many" /\ pc \in {"idle", "panicked"}) =>
        LET e == StepN(rule, old, width, arg[1])
        IN  /\ data = e.grid
            /\ (pc = "idle") = e.ok

C4_Witness ==
    /\ op = "step_many"
    /\ pc = "idle"
    /\ arg = <<2>>
    /\ data # old
    /\ step_result(rule, old, width).grid # old

\* C5: the parallel step installs exactly the grid the sequential step
\* installs from the same generation, slot by slot, and fails exactly when
\* the sequential step fails, leaving the storage as it was.
C5_ParallelEquivalence ==
    [][ (parallel /\ pc = "step" /\ pc' # "step") =>
            LET s == step_result(rule, data, width)
            IN  IF pc' = "panicked"
                THEN ~s.ok /\ data' = data
                ELSE s.ok /\ data' = s.grid ]_vars

\* The second worker has mapped its whole range before the first has begun.
C5_Witness ==
    /\ parallel
    /\ pc = "step"
    /\ progress[0] = 0
    /\ progress[1] = ChunkLen(1, DataLen(data))
    /\ \E idx \in DOMAIN next : next[idx] # data[idx]

\* C6: on a 2x2 Game of Life grid with all four cells Live a step does not
\* fail and gives every cell the value Live again.
C6_StillLife ==
    (rule = "GameOfLife" /\ ctor = <<2, 2>> /\ \A i \in DOMAIN data : data[i] = Live) =>
        /\ op \in {"step", "step_many"} => panic = NoPanic
        /\ \A idx \in DOMAIN next : next[idx] = Live

\* C7: on a 3x3 Game of Life grid a step turns the vertical blinker into the
\* horizontal one and the horizontal one into the vertical one, and never
\* fails on either.
C7_Blinker ==
    [][ (rule = "GameOfLife" /\ ctor = <<3, 3>> /\ pc = "step"
            /\ data \in {Vertical, Horizontal} /\ pc' # "step") =>
            /\ pc' # "panicked"
            /\ data = Vertical => data' = Horizontal
            /\ data = Horizontal => data' = Vertical ]_vars

\* step_many(2) on the vertical blinker has returned, with the vertical blinker.
C7_Witness ==
    /\ rule = "GameOfLife"
    /\ ctor = <<3, 3>>
    /\ op = "step_many"
    /\ arg = <<2>>
    /\ pc = "idle"
    /\ old = Vertical
    /\ data = Vertical

\* C8: set_cell with coordinates outside the grid panics or changes nothing.
C8_WriteOutOfGrid ==
    [][ (pc = "idle" /\ op' = "set_cell" /\ ~InGrid(arg'[1], arg'[2])) =>
            (pc' = "panicked" \/ data' = data) ]_vars

\* C9: get_cell with coordinates outside the grid leaves the grid unchanged
\* and either panics, its flat index being outside the storage, or returns
\* the cell of the storage at its flat index.
C9_ReadOutOfGrid ==
    [][ (pc = "idle" /\ op' = "get_cell" /\ ~InGrid(arg'[1], arg'[2])) =>
            LET i == FlatIndex(width, arg'[1], arg'[2])
            IN  /\ data' = data
                /\ \/ /\ i \notin DOMAIN data
                      /\ pc' = "panicked"
                      /\ panic' = IndexOob
                   \/ /\ i \in DOMAIN data
                      /\ pc' = "idle"
                      /\ ret' = <<data[i]>> ]_vars

\* A read one column beyond the grid has returned a cell of the next row.
C9_Witness ==
    /\ op = "get_cell"
    /\ pc = "idle"
    /\ Width > 0
    /\ arg[1] = Width
    /\ ret # <<>>
    /\ ret # <<Default(rule)>>

\* C10: one step of Diffusion on the 3x3 grid whose only hot cell is (0,0) =
\* 100 ends in (0,0) = 40, (1,0) = 10, (0,1) = 10, (1,1) = 5, all others 0.
C10_DiffusionScenario ==
    [][ (rule = "Diffusion" /\ ctor = <<3, 3>> /\ pc = "step"
            /\ data = HotCorner(scale) /\ pc' # "step") =>
            /\ pc' # "panicked"
            /\ data' = AfterOneStep(scale') ]_vars

C10_Witness ==
    /\ rule = "Diffusion"
    /\ ctor = <<3, 3>>
    /\ op = "step"
    /\ pc = "idle"
    /\ scale = 1
    /\ data = AfterOneStep(1)

\* C11: a grid constructed with width > 0 and height > 0 has exactly
\* width * height cells, every cell of it holds the rule's default value,
\* and a get_cell of any of its cells returns that value.
C11_ConstructDefault ==
    [][ (op = "new" /\ Width > 0 /\ Height > 0) =>
            /\ DataLen(data) = Width * Height
            /\ \A x \in 0..(Width - 1), y \in 0..(Height - 1) :
                  get(data, width, x, y, Default(rule)) = [panics |-> {}, v |-> Default(rule)]
            /\ (op' = "get_cell" /\ InGrid(arg'[1], arg'[2])) =>
                  (pc' = "idle" /\ ret' = <<Default(rule)>>) ]_vars

\* The last cell of a fresh 3x2 Diffusion grid has been read.
C11_Witness ==
    /\ rule = "Diffusion"
    /\ ctor = <<3, 2>>
    /\ writes = 0
    /\ scale = 0
    /\ op = "get_cell"
    /\ arg = <<2, 1>>
    /\ pc = "idle"
    /\ ret = <<0>>

\* C12: in every state the width is the width given at construction, the
\* storage is indexed 0..len-1 with len = width * height as given at
\* construction, and len is an exact multiple of the width.
C12_ShapeInvariant ==
    /\ width = Width
    /\ DOMAIN data = 0..(Width * Height - 1)
    /\ DataLen(data) = Width * Height
    /\ width > 0 => (DataLen(data) % width = 0 /\ DataLen(data) \div width = Height)

\* step_many(2) has returned on a 2x3 grid that a write has changed.
C12_Witness ==
    /\ ctor = <<2, 3>>
    /\ op = "step_many"
    /\ arg = <<2>>
    /\ pc = "idle"
    /\ old # new_with(rule, 2, 3)
    /\ data # old

\* C13: the grid a step ends with is a function of the rule, the width and
\* the cells of the grid it began with, and of nothing else: two grids equal
\* in these three end their steps with equal cells, and if the step of one
\* fails, so does the step of the other, each keeping its cells.
C13_Determinism ==
    [][ (pc = "step" /\ pc' # "step") =>
            \E f \in {step_result(rule, data, width)} :
                /\ data' = f.grid
                /\ (pc' # "panicked") = f.ok ]_vars

\* A step that changed a non-default Game of Life grid has ended.
C13_Witness ==
    /\ rule = "GameOfLife"
    /\ op = "step"
    /\ pc = "idle"
    /\ \E i \in DOMAIN data : data[i] = Live
    /\ \E i \in DOMAIN data : data[i] = Dead

\* C14: a grid constructed with width = 0 or height = 0 is empty and stays
\* so: its storage is empty and its width the constructed one in every
\* state, and step and step_many never fail on it (only get_cell and
\* set_cell, which have no cell to address, panic).
C14_ZeroSized ==
    (Width = 0 \/ Height = 0) =>
        /\ data = <<>>
        /\ width = Width
        /\ next = <<>>
        /\ panic # NoPanic => op \in {"get_cell", "set_cell"}

\* step_many(2) has returned on a grid of width 3 and height 0.
C14_Witness ==
    /\ ctor = <<3, 0>>
    /\ op = "step_many"
    /\ arg = <<2>>
    /\ pc = "idle"
    /\ remaining = 0
    /\ data = <<>>

\* C15: during a step, for every cell (x, y) and every offset (dx, dy) whose
\* position (x+dx, y+dy) is inside the grid, the read of that slot succeeds
\* with the pre-step value of the cell at flat index (y+dy)*width + (x+dx);
\* and the snapshot passed to the rule for a mapped cell holds that value at
\* row 1+dy, column 1+dx (counted from 0), its centre being the cell itself.
C15_NeighborhoodLayout ==
    (pc = "step" /\ Width > 0 /\ Height > 0) =>
        \A idx \in DOMAIN pre :
            LET rd == field_reads(pre, width, idx, Default(rule))
                fm == get_field_matrix(pre, width, idx, Default(rule))
                x == idx % width
                y == idx \div width
            IN  /\ \A dx \in Offsets, dy \in Offsets :
                      InGrid(x + dx, y + dy) =>
                          rd[3 * (1 + dy) + (1 + dx) + 1] =
                              [panics |-> {}, v |-> pre[(y + dy) * width + (x + dx)]]
                /\ idx \in DOMAIN next =>
                      /\ fm.panics = {}
                      /\ fm.m[2][2] = pre[idx]
                      /\ \A dx \in Offsets, dy \in Offsets :
                            InGrid(x + dx, y + dy) =>
                                fm.m[2 + dy][2 + dx] = pre[(y + dy) * width + (x + dx)]

\* Every cell of a 3x3 grid is mapped (corners, edges, interior), from a
\* generation in which the cells above and left of the centre differ.
C15_Witness ==
    /\ pc = "step"
    /\ ctor = <<3, 3>>
    /\ DOMAIN next = 0..8
    /\ pre[1] # pre[3]
    /\ pre[0] # pre[8]

\* C16: a set_cell(x, y, v) inside the grid does not fail; after it cell
\* (x, y) reads v and every other cell of the grid reads what it read
\* before, and the width and the length of the storage are unchanged; a
\* get_cell(x, y) that follows it returns v; and no get_cell changes the
\* storage or the width.
C16_WriteReadFrame ==
    [][ /\ (pc = "idle" /\ op' = "set_cell" /\ InGrid(arg'[1], arg'[2])) =>
              /\ pc' = "idle"
              /\ width' = width
              /\ DataLen(data') = DataLen(data)
              /\ \A x \in 0..(Width - 1), y \in 0..(Height - 1) :
                    get(data', width', x, y, Default(rule)) =
                        IF <<x, y>> = <<arg'[1], arg'[2]>>
                        THEN [panics |-> {}, v |-> arg'[3]]
                        ELSE get(data, width, x, y, Default(rule))
        /\ (pc = "idle" /\ op' = "get_cell") =>
              (data' = data /\ width' = width)
        /\ (pc = "idle" /\ op = "set_cell" /\ InGrid(arg[1], arg[2])
                /\ op' = "get_cell" /\ arg' = <<arg[1], arg[2]>>) =>
              (pc' = "idle" /\ ret' = <<arg[3]>>) ]_vars

\* The hot value written to cell (1, 2) of a fresh 2x3 Diffusion grid has
\* been read back.
C16_Witness ==
    /\ rule = "Diffusion"
    /\ ctor = <<2, 3>>
    /\ writes = 1
    /\ scale = 0
    /\ op = "get_cell"
    /\ arg = <<1, 2>>
    /\ pc = "idle"
    /\ ret = <<Hot>>
    /\ \A i \in DOMAIN data : data[i] = (IF i = 5 THEN Hot ELSE 0)

====
